---- MODULE Spec2Model ----
(***************************************************************************)
(* Verification model of the dremio-mcp query path:                        *)
(*   RunSqlQuery.invoke -> ensure_query_allowed -> sql.run_query ->        *)
(*   sql.get_results -> run_in_parallel(_fetch_results ...)                *)
(* and of run_in_parallel on its own, as its other callers use it.         *)
(***************************************************************************)
EXTENDS Integers, Sequences, FiniteSets, TLC

VARIABLES
    allow_dml,             \* settings.instance().dremio.allow_dml
    s,                     \* the sql argument of RunSqlQuery.invoke, a sequence of lexemes
    pc,                    \* where the calling coroutine is suspended
    outcome,               \* what the call returned or raised
    result,                \* what sql.run_query returned or raised to invoke
    requests,              \* every request issued to the remote system, in order
    job,                   \* the Job last returned by a status poll
    responses,             \* history: the answer to each status poll, in order
    coroutines,            \* the awaitables handed to run_in_parallel
    max_concurrent_tasks,  \* the Semaphore's initial value
    semaphore,             \* the Semaphore's current value
    tasks,                 \* state of each sem_task wrapped by gather
    gathered,              \* state of the gather future
    finished,              \* history: task indexes in the order they ended
    dremio,                \* settings.instance().dremio: project_id, enable_experimental
    call,                  \* the last call into the tool registry and what it gave
    mcp                    \* the FastMCP server built by init: its tools and resources

invokeVars == <<allow_dml, s>>
callVars   == <<pc, outcome, result>>
remoteVars == <<requests, job, responses>>
parVars    == <<coroutines, max_concurrent_tasks, semaphore, tasks, gathered, finished>>
toolVars   == <<dremio, call, mcp>>
vars       == <<allow_dml, s, pc, outcome, result, requests, job, responses, coroutines,
                max_concurrent_tasks, semaphore, tasks, gathered, finished, dremio, call,
                mcp>>

(***************************************************************************)
(* Bounds of the model.                                                    *)
(***************************************************************************)
MaxStmts == 2        \* statements per sql text
MaxPolls == 3        \* status polls per call
MaxFullPages == 2    \* full result pages of a job
MaxOps == 3          \* operations handed to run_in_parallel by a generic caller
MaxConcurrent == 2   \* concurrency limits tried by a generic caller

None == "None"

(***************************************************************************)
(* SQL text.  A text is a sequence of lexemes; Chars gives the characters  *)
(* of each lexeme, so that re.search runs on the characters while          *)
(* sqlglot's parser runs on the tokens.                                    *)
(***************************************************************************)
Chars ==
    ("select"      :> <<"s","e","l","e","c","t">>) @@
    ("from"        :> <<"f","r","o","m">>) @@
    ("where"       :> <<"w","h","e","r","e">>) @@
    ("union"       :> <<"u","n","i","o","n">>) @@
    ("with"        :> <<"w","i","t","h">>) @@
    ("as"          :> <<"a","s">>) @@
    ("id"          :> <<"i","d">>) @@
    ("t"           :> <<"t">>) @@
    ("c"           :> <<"c">>) @@
    ("x"           :> <<"x">>) @@
    ("="           :> <<"=">>) @@
    ("("           :> <<"(">>) @@
    (")"           :> <<")">>) @@
    (";"           :> <<";">>) @@
    (" "           :> <<" ">>) @@
    ("  "          :> <<" "," ">>) @@
    ("'drop this'" :> <<"'","d","r","o","p"," ","t","h","i","s","'">>) @@
    ("is_deleted"  :> <<"i","s","_","d","e","l","e","t","e","d">>) @@
    ("DROP"        :> <<"D","R","O","P">>) @@
    ("drop"        :> <<"d","r","o","p">>) @@
    ("TABLE"       :> <<"T","A","B","L","E">>) @@
    ("table"       :> <<"t","a","b","l","e">>) @@
    ("delete"      :> <<"d","e","l","e","t","e">>) @@
    ("begin"       :> <<"b","e","g","i","n">>) @@
    ("copy"        :> <<"c","o","p","y">>) @@
    ("into"        :> <<"i","n","t","o">>)

RECURSIVE Text(_)
Text(sql) == IF sql = <<>> THEN <<>> ELSE Chars[Head(sql)] \o Text(Tail(sql))

UpperAlpha == <<"A","B","C","D","E","F","G","H","I","J","K","L","M",
                "N","O","P","Q","R","S","T","U","V","W","X","Y","Z">>
LowerAlpha == <<"a","b","c","d","e","f","g","h","i","j","k","l","m",
                "n","o","p","q","r","s","t","u","v","w","x","y","z">>
Digits == {"0","1","2","3","4","5","6","7","8","9"}

ToLower(ch) ==
    IF \E i \in 1..26 : UpperAlpha[i] = ch
    THEN LowerAlpha[CHOOSE i \in 1..26 : UpperAlpha[i] = ch]
    ELSE ch

IsWordChar(ch) ==
    \/ \E i \in 1..26 : ch = UpperAlpha[i] \/ ch = LowerAlpha[i]
    \/ ch \in Digits
    \/ ch = "_"

(***************************************************************************)
(* re.search(r"\b(drop|insert|update|truncate|delete|copy into|alter|      *)
(* create)\b", s, re.IGNORECASE)                                           *)
(***************************************************************************)
DenyList == {
    <<"d","r","o","p">>,
    <<"i","n","s","e","r","t">>,
    <<"u","p","d","a","t","e">>,
    <<"t","r","u","n","c","a","t","e">>,
    <<"d","e","l","e","t","e">>,
    <<"c","o","p","y"," ","i","n","t","o">>,
    <<"a","l","t","e","r">>,
    <<"c","r","e","a","t","e">> }

\* \b at position p: between txt[p-1] and txt[p], one is a word character
\* and the other is not (the ends of the text count as non-word).
WordBoundary(txt, p) ==
    LET before == p > 1 /\ IsWordChar(txt[p - 1])
        after  == p <= Len(txt) /\ IsWordChar(txt[p])
    IN  before # after

\* A mutant of MatchAt: the match is case-sensitive (re.IGNORECASE dropped).
MatchAtCaseSensitive(txt, p, kw) ==
    /\ p + Len(kw) - 1 <= Len(txt)
    /\ \A j \in 1..Len(kw) : txt[p + j - 1] = kw[j]

MatchAt(txt, p, kw) ==
    /\ p + Len(kw) - 1 <= Len(txt)
    /\ \A j \in 1..Len(kw) : ToLower(txt[p + j - 1]) = ToLower(kw[j])

ReSearch(txt) ==
    \E p \in 1..Len(txt) : \E kw \in DenyList :
        /\ WordBoundary(txt, p)
        /\ MatchAt(txt, p, kw)
        /\ WordBoundary(txt, p + Len(kw))

(***************************************************************************)
(* sqlglot.parse_one(s): tokenize, split the tokens into statements at     *)
(* semicolons, parse every statement (an error in any of them raises       *)
(* ParseError) and return the FIRST statement's expression.                *)
(***************************************************************************)
IsSpace(l) == \A i \in 1..Len(Chars[l]) : Chars[l][i] = " "

Tokens(sql) == SelectSeq(sql, LAMBDA l : ~IsSpace(l))

LowerSeq(cs) == [i \in 1..Len(cs) |-> ToLower(cs[i])]

\* Keywords are matched whatever their letter case.
LowerLex(l) ==
    IF \E k \in DOMAIN Chars : Chars[k] = LowerSeq(Chars[l])
    THEN CHOOSE k \in DOMAIN Chars : Chars[k] = LowerSeq(Chars[l])
    ELSE l

RECURSIVE ChunksFrom(_, _, _)
ChunksFrom(toks, i, acc) ==
    IF i > Len(toks) THEN acc
    ELSE IF toks[i] = ";"
         THEN ChunksFrom(toks, i + 1, IF i < Len(toks) THEN Append(acc, <<>>) ELSE acc)
         ELSE ChunksFrom(toks, i + 1, [acc EXCEPT ![Len(acc)] = Append(@, toks[i])])

Chunks(toks) == ChunksFrom(toks, 1, << <<>> >>)

Count(chunk, l) == Cardinality({i \in 1..Len(chunk) : chunk[i] = l})

Balanced(chunk) == Count(chunk, "(") = Count(chunk, ")")

RECURSIVE StatementRoot(_)
StatementRoot(chunk) ==
    LET kw == LowerLex(chunk[1])
        closing == {i \in 1..Len(chunk) : chunk[i] = ")"}
        close == CHOOSE i \in closing : \A j \in closing : i <= j
    IN  CASE kw = "select" ->
                 IF \E i \in 1..Len(chunk) : LowerLex(chunk[i]) = "union"
                 THEN "Union" ELSE "Select"
          [] kw = "with" ->
                 \* the WITH clause is attached to the statement that follows it
                 IF closing = {} \/ close = Len(chunk) THEN "ParseError"
                 ELSE StatementRoot(SubSeq(chunk, close + 1, Len(chunk)))
          [] kw = "drop"   -> "Drop"
          [] kw = "delete" -> "Delete"
          [] kw = "copy"   -> "Copy"
          [] kw = "begin"  -> "Transaction"
          [] OTHER         -> "Expression"

ParseStatement(chunk) ==
    IF chunk = <<>> THEN None
    ELSE IF ~Balanced(chunk) THEN "ParseError"
    ELSE StatementRoot(chunk)

Statements(sql) ==
    LET chunks == Chunks(Tokens(sql))
    IN  [i \in 1..Len(chunks) |-> ParseStatement(chunks[i])]

ParseOne(sql) ==
    LET stmts == Statements(sql)
    IN  IF \E i \in 1..Len(stmts) : stmts[i] = "ParseError" THEN "ParseError"
        ELSE IF stmts[1] = None THEN "ParseError"
        ELSE stmts[1]

\* RunSqlQuery._safe
Safe == {"Select", "With", "Union"}

\* A mutant of EnsureQueryAllowed: the keyword scan runs on every text,
\* whether or not it parsed.
EnsureQueryAllowedScanAlways(allow, sql) ==
    IF allow THEN "ok"
    ELSE IF ReSearch(Text(sql)) THEN "ValueError"
    ELSE IF ParseOne(sql) = "ParseError" \/ ParseOne(sql) \in Safe THEN "ok"
    ELSE "ValueError"

\* A mutant of EnsureQueryAllowed: allow_dml is not consulted.
EnsureQueryAllowedNoFlag(allow, sql) ==
    IF ParseOne(sql) # "ParseError"
    THEN IF ParseOne(sql) \in Safe THEN "ok" ELSE "ValueError"
    ELSE IF ~ReSearch(Text(sql)) THEN "ok" ELSE "ValueError"

\* RunSqlQuery.ensure_query_allowed(s): "ok" when it returns, "ValueError"
\* when it raises.
EnsureQueryAllowed(allow, sql) ==
    IF allow THEN "ok"
    ELSE IF ParseOne(sql) # "ParseError"
         THEN IF ParseOne(sql) \in Safe THEN "ok" ELSE "ValueError"
         ELSE IF ~ReSearch(Text(sql)) THEN "ok" ELSE "ValueError"

(***************************************************************************)
(* The sql texts tried: one to MaxStmts statements joined by semicolons.   *)
(***************************************************************************)
SelPlain    == <<"select"," ","id"," ","from"," ","t">>
SelLiteral  == SelPlain \o <<" ","where"," ","x","=","'drop this'">>
SelIdent    == <<"select"," ","is_deleted"," ","from"," ","t">>
SelUnion    == SelPlain \o <<" ","union"," ">> \o SelPlain
WithSel     == <<"with"," ","c"," ","as"," ","(">> \o SelPlain \o
               <<")"," ","select"," ","id"," ","from"," ","c">>
DropStmt    == <<"DROP"," ","TABLE"," ","t">>
DeleteStmt  == <<"delete"," ","from"," ","t">>
BeginStmt   == <<"begin">>
CopyBad     == <<"copy"," ","into"," ","t"," ","from"," ","(">>
CopyWide    == <<"copy","  ","into"," ","t"," ","from"," ","(">>
SelBadIdent == <<"select"," ","is_deleted"," ","from"," ","(">>

SampleStatements == {SelPlain, SelLiteral, SelIdent, SelUnion, WithSel, DropStmt,
                     DeleteStmt, BeginStmt, CopyBad, CopyWide, SelBadIdent}

RECURSIVE Join(_)
Join(stmts) ==
    IF Len(stmts) = 1 THEN stmts[1]
    ELSE stmts[1] \o <<";">> \o Join(Tail(stmts))

Texts == {Join(stmts) : stmts \in UNION {[1..n -> SampleStatements] : n \in 1..MaxStmts}}

(***************************************************************************)
(* Jobs, status responses and result pages.                                *)
(***************************************************************************)
PageLimit == 500
DefaultMaxConcurrentTasks == 10
JobId == "job-1"
Prefix == "/* dremioai: submitter=RunSqlQuery */\n"
FailedMessage == "The query failed. Please check the syntax and try again"
DmlMessage == "The query contains a DML statement. Only select queries are allowed"

JobState == {"NOT_SUBMITTED", "STARTING", "RUNNING", "COMPLETED", "CANCELED", "FAILED",
             "CANCELLATION_REQUESTED", "PLANNING", "PENDING", "METADATA_RETRIEVAL",
             "QUEUED", "ENGINE_START", "EXECUTION_PLANNING", "INVALID_STATE"}

\* Job.done and Job.succeeded
Done(j) == j.job_state \in {"COMPLETED", "CANCELED", "FAILED"}
Succeeded(j) == j.job_state = "COMPLETED"

\* The states the remote system reports: those of JobState and ENQUEUED.
RemoteStates == JobState \cup {"ENQUEUED"}

RowCounts == UNION {{k * PageLimit, k * PageLimit + 1, k * PageLimit + 200} :
                    k \in 0..MaxFullPages}

\* The status responses the remote system may send.  An optional JSON field
\* is a sequence of length 0 (absent) or 1 (present).
StatusResponses ==
    {[jobState |-> st, rowCount |-> rc, errorMessage |-> "", cancellationReason |-> ""] :
        st \in RemoteStates \ {"COMPLETED", "CANCELED", "FAILED"}, rc \in {<<>>, <<0>>}}
    \cup
    {[jobState |-> "COMPLETED", rowCount |-> <<rc>>, errorMessage |-> "",
      cancellationReason |-> ""] : rc \in RowCounts}
    \cup
    {[jobState |-> st, rowCount |-> <<0>>, errorMessage |-> e, cancellationReason |-> c] :
        st \in {"CANCELED", "FAILED"}, e \in {None, "", "boom"}, c \in {None, "", "user"}}

\* Job.model_validate_json: job_state must be a JobState and row_count is required.
JobValid(resp) == resp.jobState \in JobState /\ resp.rowCount # <<>>

JobOf(resp) == [job_state |-> resp.jobState, row_count |-> resp.rowCount[1],
                error_message |-> resp.errorMessage,
                cancellation_reason |-> resp.cancellationReason]

NoJob == [job_state |-> None, row_count |-> 0, error_message |-> None,
          cancellation_reason |-> None]

\* Python truthiness of an Optional[str]
Truthy(str) == str # None /\ str # ""

\* A mutant of Emsg: the cancellation reason is used whatever the state.
EmsgNoStateCheck(j) ==
    IF Truthy(j.error_message) THEN j.error_message ELSE j.cancellation_reason

\* A mutant of Emsg: the cancellation reason is never used.
EmsgNoReason(j) ==
    IF Truthy(j.error_message) THEN j.error_message ELSE "Unknown error"

\* emsg of get_results
Emsg(j) ==
    IF Truthy(j.error_message) THEN j.error_message
    ELSE IF j.job_state = "CANCELED" THEN j.cancellation_reason
    ELSE "Unknown error"

Min(a, b) == IF a < b THEN a ELSE b

\* range(0, job.row_count, limit) with limit = min(500, job.row_count)
Limit(rc) == Min(PageLimit, rc)
Offsets(rc) == {off \in 0..(rc - 1) : off % Limit(rc) = 0}
NumPages(rc) == Cardinality(Offsets(rc))

FetchCoroutine(off, limit) == [kind |-> "fetch", off |-> off, limit |-> limit, val |-> None]
OpCoroutine(v) == [kind |-> "op", off |-> 0, limit |-> 0, val |-> v]

\* [_fetch_results(uri, pat, project_id, qs.id, off, limit) for off in range(...)]
FetchCoroutines(rc) == [i \in 1..NumPages(rc) |-> FetchCoroutine((i - 1) * Limit(rc), Limit(rc))]

\* DremioAsyncHttpClient.__init__(self) takes no argument: a call with
\* keyword arguments raises TypeError.
ClientInit(kwargs) == IF kwargs # {} THEN "TypeError" ELSE "ok"

Request(op, sql, off, limit) == [op |-> op, sql |-> sql, offset |-> off, limit |-> limit]

\* What a status poll got back: a response body, or an HTTP error status.
Answer(resp) == [ok |-> TRUE, body |-> <<resp>>]
HttpFailure == [ok |-> FALSE, body |-> <<>>]

(***************************************************************************)
(* The tool registry: ToolType, the declared tool classes, is_tool_for.    *)
(***************************************************************************)
\* The members of the IntFlag ToolType.
ToolType == {"FOR_SELF", "FOR_PROMETHEUS", "FOR_DATA_PATTERNS"}

\* settings.Dremio as the registry reads it; unconfigured is
\* settings.instance().dremio being None.
DremioSettings(project_id, enable_experimental) ==
    [configured |-> TRUE, project_id |-> project_id,
     enable_experimental |-> enable_experimental]
NoDremio == [configured |-> FALSE, project_id |-> None, enable_experimental |-> FALSE]

\* A class of the Tools hierarchy: the flags its For annotation names (no
\* annotation: <<>>), its project_id_required annotation, and whether it
\* derives from Resource.
ToolClass(name, For, pid, res) ==
    [name |-> name, For |-> For, project_id_required |-> pid, resource |-> res]

ToolClasses ==
    {ToolClass("GetFailedJobDetails", <<{"FOR_SELF"}>>, FALSE, FALSE),
     ToolClass("RunSqlQuery", <<{"FOR_SELF", "FOR_DATA_PATTERNS"}>>, FALSE, FALSE),
     ToolClass("BuildUsageReport", <<{"FOR_SELF"}>>, TRUE, FALSE),
     ToolClass("Resource", <<>>, FALSE, TRUE),
     ToolClass("GetNameOfJobsRecentTable", <<{"FOR_SELF"}>>, FALSE, FALSE),
     ToolClass("Hints", <<{"FOR_SELF"}>>, FALSE, TRUE),
     ToolClass("GetUsefulSystemTableNames", <<{"FOR_SELF", "FOR_DATA_PATTERNS"}>>, FALSE, FALSE),
     ToolClass("GetSchemaOfTable", <<{"FOR_SELF", "FOR_DATA_PATTERNS"}>>, FALSE, FALSE),
     ToolClass("GetTableOrViewLineage", <<{"FOR_SELF", "FOR_DATA_PATTERNS"}>>, FALSE, FALSE),
     ToolClass("SemanticSearch", <<{"FOR_SELF", "FOR_DATA_PATTERNS", "EXPERIMENTAL"}>>,
               FALSE, FALSE),
     ToolClass("GetRelevantMetrics", <<{"FOR_PROMETHEUS"}>>, FALSE, FALSE),
     ToolClass("GetMetricSchema", <<{"FOR_PROMETHEUS"}>>, FALSE, FALSE),
     ToolClass("RunPromQL", <<{"FOR_PROMETHEUS"}>>, FALSE, FALSE),
     ToolClass("GetDescriptionOfTableOrSchema", <<{"FOR_SELF", "FOR_DATA_PATTERNS"}>>,
               FALSE, FALSE)}

\* The runtime modes: the non-empty combinations of ToolType members.
Modes == SUBSET ToolType \ {{}}

\* A mutant of IsToolFor: the experimental flag is not looked at.
IsToolForNoExperimentalCheck(tool, tool_type, d) ==
    IF tool.project_id_required /\ d.configured /\ d.project_id = None THEN "False"
    ELSE IF tool.For = <<>> THEN "False"
    ELSE IF tool.For[1] \cap tool_type # {} THEN "True" ELSE "False"

\* is_tool_for(tool, tool_type) with d = settings.instance().dremio: "True",
\* "False", or the exception it raises.  `ToolType.EXPERIMENTAL` is an
\* attribute lookup on the enum, and `dremio.enable_experimental` one on d.
IsToolFor(tool, tool_type, d) ==
    IF tool.project_id_required /\ d.configured /\ d.project_id = None THEN "False"
    ELSE IF tool.For = <<>> THEN "False"
    ELSE IF "EXPERIMENTAL" \notin ToolType THEN "AttributeError"
    ELSE IF "EXPERIMENTAL" \in tool.For[1] /\ ~d.configured THEN "AttributeError"
    ELSE IF "EXPERIMENTAL" \in tool.For[1] /\ ~d.enable_experimental THEN "False"
    ELSE IF tool.For[1] \cap tool_type # {} THEN "True" ELSE "False"

\* The classes get_tools goes through: _subclasses(Tools) without Resource
\* and its subclasses.
ToolCandidates == {tc \in ToolClasses : tc.name # "Resource" /\ ~tc.resource}

\* What get_tools and get_resources give for the classes cs: those listed,
\* or the exception the comprehension raises; For is <<>> for None and
\* <<mode>> otherwise.
Listing(cs, For, d) ==
    IF For = <<>>
    THEN [value |-> "list", listed |-> {tc.name : tc \in cs}]
    ELSE IF \E tc \in cs : IsToolFor(tc, For[1], d) = "AttributeError"
    THEN [value |-> "AttributeError", listed |-> {}]
    ELSE [value |-> "list",
          listed |-> {tc.name : tc \in {c \in cs : IsToolFor(c, For[1], d) = "True"}}]

\* A mutant of GetTools: is_tool_for is evaluated also when For is None,
\* with the default mode.
GetToolsAlwaysFiltered(For, d) ==
    Listing(ToolCandidates, IF For = <<>> THEN <<{"FOR_SELF"}>> ELSE For, d)

\* get_tools(For)
GetTools(For, d) ==
    IF For = <<>>
    THEN [value |-> "list", listed |-> {tc.name : tc \in ToolCandidates}]
    ELSE IF \E tc \in ToolCandidates : IsToolFor(tc, For[1], d) = "AttributeError"
    THEN [value |-> "AttributeError", listed |-> {}]
    ELSE [value |-> "list",
          listed |-> {tc.name : tc \in {c \in ToolCandidates : IsToolFor(c, For[1], d) = "True"}}]

\* The classes get_resources goes through: _subclasses(Resource).
ResourceCandidates == {tc \in ToolClasses : tc.name # "Resource" /\ tc.resource}

\* get_resources(For)
GetResources(For, d) == Listing(ResourceCandidates, For, d)

\* A call into the registry: its arguments, the configuration it read, what
\* it returned or raised.
Call(op, tool, For, d, value, listed) ==
    [op |-> op, tool |-> tool, For |-> For, d |-> d, value |-> value, listed |-> listed]
NoCall == Call("none", "none", <<>>, NoDremio, "none", {})

\* The server: not built, built with its registered tools and resources
\* under the configuration d, or init raised.
Server(st, tools, resources, d) ==
    [st |-> st, tools |-> tools, resources |-> resources, d |-> d]
NoServer == Server("none", {}, {}, NoDremio)

(***************************************************************************)
(* What a call returned or raised.                                         *)
(***************************************************************************)
Pending == [kind |-> "pending", exc |-> None, error |-> <<>>, message |-> None,
            results |-> <<>>]
Raise(exc, msg) == [kind |-> "raise", exc |-> exc, error |-> msg, message |-> None,
                    results |-> <<>>]
Return(results) == [kind |-> "return", exc |-> None, error |-> <<>>, message |-> None,
                  results |-> results]
ReturnError(msg) == [kind |-> "return", exc |-> None, error |-> msg,
                     message |-> FailedMessage, results |-> <<>>]

\* A mutant of InvokeOutcome: the RuntimeError is not caught.
InvokeOutcomePropagate(res) == res

\* RunSqlQuery.invoke around sql.run_query: a RuntimeError becomes an error
\* record, any other exception propagates, a result is returned.
InvokeOutcome(res) ==
    IF res.kind = "raise" /\ res.exc = "RuntimeError" THEN ReturnError(res.error)
    ELSE res

\* A mutant of AfterPolling: a job without rows is not short-circuited.
AfterPollingNoEmptyCase(j) ==
    IF ~Succeeded(j) THEN Raise("RuntimeError", <<"Job ", JobId, " failed: ", Emsg(j)>>)
    ELSE Pending

\* get_results once the job is done and before any page is fetched:
\* the outcome, or Pending when pages are to be fetched.
AfterPolling(j) ==
    IF ~Succeeded(j) THEN Raise("RuntimeError", <<"Job ", JobId, " failed: ", Emsg(j)>>)
    ELSE IF j.row_count = 0 THEN Return(<<>>)
    ELSE Pending

WaitingTask == [st |-> "waiting", result |-> <<>>, exc |-> None]
NoGather == [st |-> "idle", exc |-> None]

\* gather(*(sem_task(c) for c in coroutines)): one task per coroutine; with no
\* coroutine the result is there at once.
StartGather(cos) == [st |-> IF Len(cos) = 0 THEN "results" ELSE "pending", exc |-> None]

(***************************************************************************)
(* A tool invocation: RunSqlQuery.invoke(s).                               *)
(***************************************************************************)
\* The statements the pipeline is run on: one that the gate lets through
\* as it is, one that it lets through only with allow_dml.
PipelineStatements == {SelPlain, DropStmt}

Init ==
    /\ allow_dml \in BOOLEAN
    /\ s \in PipelineStatements
    /\ pc = "invoke"
    /\ outcome = Pending
    /\ result = Pending
    /\ requests = <<>>
    /\ job = NoJob
    /\ responses = <<>>
    /\ coroutines = <<>>
    /\ max_concurrent_tasks = DefaultMaxConcurrentTasks
    /\ semaphore = DefaultMaxConcurrentTasks
    /\ tasks = <<>>
    /\ gathered = NoGather
    /\ finished = <<>>
    /\ dremio = DremioSettings("proj", FALSE)
    /\ call = NoCall
    /\ mcp = NoServer

\* A mutant of InvokeStart: the query is submitted before it is checked.
InvokeStartSubmitFirst ==
    /\ pc = "invoke"
    /\ requests' = Append(requests, Request("submit", <<Prefix>> \o s, 0, 0))
    /\ IF EnsureQueryAllowed(allow_dml, s) = "ValueError"
       THEN pc' = "raised" /\ outcome' = Raise("ValueError", <<DmlMessage>>)
       ELSE pc' = "submit" /\ outcome' = outcome
    /\ UNCHANGED <<invokeVars, result, job, responses, parVars>>

\* A mutant of InvokeStart: the first status poll is issued together with
\* the submission.
InvokeStartPollEarly ==
    /\ pc = "invoke"
    /\ IF EnsureQueryAllowed(allow_dml, s) = "ValueError"
       THEN /\ pc' = "raised"
            /\ outcome' = Raise("ValueError", <<DmlMessage>>)
            /\ requests' = requests
       ELSE /\ pc' = "submit"
            /\ outcome' = outcome
            /\ requests' = requests \o <<Request("submit", <<Prefix>> \o s, 0, 0),
                                         Request("status", <<>>, 0, 0)>>
    /\ UNCHANGED <<invokeVars, result, job, responses, parVars>>

\* invoke up to its first suspension: ensure_query_allowed, then run_query
\* posts the prefixed sql.
InvokeStart ==
    /\ pc = "invoke"
    /\ IF EnsureQueryAllowed(allow_dml, s) = "ValueError"
       THEN /\ pc' = "raised"
            /\ outcome' = Raise("ValueError", <<DmlMessage>>)
            /\ requests' = requests
       ELSE /\ pc' = "submit"
            /\ outcome' = outcome
            /\ requests' = Append(requests, Request("submit", <<Prefix>> \o s, 0, 0))
    /\ UNCHANGED <<invokeVars, result, job, responses, parVars>>

\* The submission is answered with a job id: get_results issues the first
\* status poll.
SubmitReturns ==
    /\ pc = "submit"
    /\ pc' = "poll"
    /\ requests' = Append(requests, Request("status", <<>>, 0, 0))
    /\ UNCHANGED <<invokeVars, outcome, result, job, responses, parVars>>

\* The submission fails: raise_for_status raises ClientResponseError, a body
\* that is no QuerySubmission raises RuntimeError.
SubmitFails ==
    /\ pc = "submit"
    /\ \E exc \in {"ClientResponseError", "RuntimeError"} :
          LET res == InvokeOutcome(Raise(exc, <<exc>>))
          IN  /\ result' = Raise(exc, <<exc>>)
              /\ outcome' = res
              /\ pc' = IF res.kind = "raise" THEN "raised" ELSE "returned"
    /\ UNCHANGED <<invokeVars, remoteVars, parVars>>

\* A status poll is answered.
PollReturns ==
    /\ pc = "poll"
    /\ \E resp \in StatusResponses :
          /\ responses' = Append(responses, Answer(resp))
          /\ IF ~JobValid(resp)
             THEN /\ result' = Raise("RuntimeError", <<"Unable to parse">>)
                  /\ outcome' = InvokeOutcome(Raise("RuntimeError", <<"Unable to parse">>))
                  /\ pc' = "returned"
                  /\ UNCHANGED <<job, parVars>>
             ELSE LET j == JobOf(resp) IN
                  /\ job' = j
                  /\ IF ~Done(j)
                     THEN pc' = "sleep" /\ UNCHANGED <<outcome, result, parVars>>
                     ELSE IF AfterPolling(j) # Pending
                     THEN /\ result' = AfterPolling(j)
                          /\ outcome' = InvokeOutcome(AfterPolling(j))
                          /\ pc' = "returned"
                          /\ UNCHANGED parVars
                     ELSE /\ pc' = "fetch"
                          /\ coroutines' = FetchCoroutines(j.row_count)
                          /\ semaphore' = max_concurrent_tasks
                          /\ tasks' = [i \in 1..NumPages(j.row_count) |-> WaitingTask]
                          /\ gathered' = StartGather(FetchCoroutines(j.row_count))
                          /\ UNCHANGED <<outcome, result, max_concurrent_tasks, finished>>
    /\ UNCHANGED <<invokeVars, requests>>

\* A mutant of PollFails: after a failed status poll the loop polls again.
PollFailsRetry ==
    /\ pc = "poll"
    /\ responses' = Append(responses, HttpFailure)
    /\ pc' = "sleep"
    /\ UNCHANGED <<invokeVars, outcome, result, requests, job, parVars>>

\* A status poll fails with an HTTP error.
PollFails ==
    /\ pc = "poll"
    /\ responses' = Append(responses, HttpFailure)
    /\ result' = Raise("ClientResponseError", <<"ClientResponseError">>)
    /\ outcome' = InvokeOutcome(Raise("ClientResponseError", <<"ClientResponseError">>))
    /\ pc' = "raised"
    /\ UNCHANGED <<invokeVars, requests, job, parVars>>

NumRequests(op) == Cardinality({i \in 1..Len(requests) : requests[i].op = op})

\* asyncio.sleep(0.5) is over: the next status poll is issued.
SleepDone ==
    /\ pc = "sleep"
    /\ NumRequests("status") < MaxPolls
    /\ pc' = "poll"
    /\ requests' = Append(requests, Request("status", <<>>, 0, 0))
    /\ UNCHANGED <<invokeVars, outcome, result, job, responses, parVars>>

(***************************************************************************)
(* run_in_parallel: sem_task under a Semaphore, gathered in input order.   *)
(***************************************************************************)
Running == {i \in 1..Len(tasks) : tasks[i].st = "running"}
Waiting == {i \in 1..Len(tasks) : tasks[i].st = "waiting"}

\* A mutant of GatherAfter: exceptions are collected like results
\* (return_exceptions=True).
GatherAfterReturnExceptions(ts, g, i) ==
    IF g.st # "pending" THEN g
    ELSE IF \A k \in 1..Len(ts) : ts[k].st \in {"done", "failed"}
         THEN [st |-> "results", exc |-> None]
    ELSE g

\* What gather holds after task i ended: the first exception goes to the
\* awaiting caller at once, the results once every task is done.
GatherAfter(ts, g, i) ==
    IF g.st # "pending" THEN g
    ELSE IF ts[i].st = "failed" THEN [st |-> "exception", exc |-> ts[i].exc]
    ELSE IF \A k \in 1..Len(ts) : ts[k].st = "done" THEN [st |-> "results", exc |-> None]
    ELSE g

\* A mutant of CanAcquire: the semaphore is not consulted.
CanAcquireAlways(i) ==
    /\ i \in Waiting
    /\ \A k \in 1..(i - 1) : k \notin Waiting

\* `async with semaphore`: the tasks acquire in the order gather created
\* them, one permit each.
CanAcquire(i) ==
    /\ i \in Waiting
    /\ \A k \in 1..(i - 1) : k \notin Waiting
    /\ semaphore > 0

\* sem_task i acquires the semaphore and runs its coroutine up to the first
\* suspension.  _fetch_results builds its client first; when that raises,
\* the task ends there and the permit is released.
TaskStart(i) ==
    /\ CanAcquire(i)
    /\ LET co == coroutines[i] IN
       IF co.kind = "fetch" /\ ClientInit({"uri", "pat"}) # "ok"
       THEN LET ts == [tasks EXCEPT ![i] = [st |-> "failed", result |-> <<>>,
                                            exc |-> ClientInit({"uri", "pat"})]]
            IN  /\ tasks' = ts
                /\ finished' = Append(finished, i)
                /\ gathered' = GatherAfter(ts, gathered, i)
                /\ UNCHANGED <<semaphore, requests>>
       ELSE /\ tasks' = [tasks EXCEPT ![i].st = "running"]
            /\ semaphore' = semaphore - 1
            /\ requests' = IF co.kind = "fetch"
                           THEN Append(requests, Request("results", <<>>, co.off, co.limit))
                           ELSE requests
            /\ UNCHANGED <<finished, gathered>>
    /\ UNCHANGED <<invokeVars, callVars, job, responses, coroutines, max_concurrent_tasks>>

\* The page the remote system returns for (off, limit) of a job of rc rows.
Page(rc, off, limit) == [offset |-> off, row_count |-> Min(limit, rc - off)]

\* What coroutine co returns.
CoroutineResult(co) ==
    IF co.kind = "fetch" THEN Page(job.row_count, co.off, co.limit) ELSE co.val

\* The coroutine of sem_task i returns: the permit is released.
TaskFinish(i) ==
    /\ i \in Running
    /\ LET ts == [tasks EXCEPT ![i] = [st |-> "done",
                                       result |-> <<CoroutineResult(coroutines[i])>>,
                                       exc |-> None]]
       IN  /\ tasks' = ts
           /\ gathered' = GatherAfter(ts, gathered, i)
    /\ semaphore' = semaphore + 1
    /\ finished' = Append(finished, i)
    /\ UNCHANGED <<invokeVars, callVars, remoteVars, coroutines, max_concurrent_tasks>>

\* The exceptions an operation may raise.
OpErrors == {"OpError", "TimeoutError"}

\* The coroutine of sem_task i raises: the permit is released.
TaskFail(i) ==
    /\ i \in Running
    /\ \E e \in OpErrors :
          LET ts == [tasks EXCEPT ![i] = [st |-> "failed", result |-> <<>>, exc |-> e]]
          IN  /\ tasks' = ts
              /\ gathered' = GatherAfter(ts, gathered, i)
    /\ semaphore' = semaphore + 1
    /\ finished' = Append(finished, i)
    /\ UNCHANGED <<invokeVars, callVars, remoteVars, coroutines, max_concurrent_tasks>>

\* A mutant of GatherResults: the results in the order the tasks ended.
GatherResultsAsCompleted == [k \in 1..Len(finished) |-> tasks[finished[k]].result[1]]

\* The list gather returns: the result of each task, in input order.
GatherResults == [i \in 1..Len(tasks) |-> tasks[i].result[1]]

\* The results of the tasks that are done, in input order.
DoneResults ==
    LET d == SelectSeq(tasks, LAMBDA tk : tk.st = "done")
    IN  [k \in 1..Len(d) |-> d[k].result[1]]

\* A mutant of FetchDone: after a failed fetch the pages that were fetched
\* are returned.
FetchDonePartial ==
    /\ pc = "fetch"
    /\ gathered.st \in {"results", "exception"}
    /\ result' = Return(DoneResults)
    /\ outcome' = Return(DoneResults)
    /\ pc' = "returned"
    /\ UNCHANGED <<invokeVars, remoteVars, parVars>>

\* get_results resumes from `await run_in_parallel(...)`: an exception
\* propagates, the pages are assembled in the order gather returned them.
FetchDone ==
    /\ pc = "fetch"
    /\ gathered.st \in {"results", "exception"}
    /\ LET res == IF gathered.st = "exception"
                  THEN Raise(gathered.exc, <<gathered.exc>>)
                  ELSE Return(GatherResults)
       IN  /\ result' = res
           /\ outcome' = InvokeOutcome(res)
           /\ pc' = IF InvokeOutcome(res).kind = "raise" THEN "raised" ELSE "returned"
    /\ UNCHANGED <<invokeVars, remoteVars, parVars>>

Next ==
    /\ \/ InvokeStart
       \/ SubmitReturns
       \/ SubmitFails
       \/ PollReturns
       \/ PollFails
       \/ SleepDone
       \/ \E i \in 1..Len(tasks) : TaskStart(i)
       \/ FetchDone
    /\ UNCHANGED toolVars

Spec == Init /\ [][Next]_vars

(***************************************************************************)
(* ensure_query_allowed on its own: invoke's first step over every text.   *)
(***************************************************************************)
InitGate ==
    /\ allow_dml \in BOOLEAN
    /\ s \in Texts
    /\ pc = "invoke"
    /\ outcome = Pending
    /\ result = Pending
    /\ requests = <<>>
    /\ job = NoJob
    /\ responses = <<>>
    /\ coroutines = <<>>
    /\ max_concurrent_tasks = DefaultMaxConcurrentTasks
    /\ semaphore = DefaultMaxConcurrentTasks
    /\ tasks = <<>>
    /\ gathered = NoGather
    /\ finished = <<>>
    /\ dremio = DremioSettings("proj", FALSE)
    /\ call = NoCall
    /\ mcp = NoServer

NextGate == InvokeStart /\ UNCHANGED toolVars

SpecGate == InitGate /\ [][NextGate]_vars

(***************************************************************************)
(* Properties of the SQL safety gate.                                      *)
(***************************************************************************)
Checked  == pc # "invoke"
Accepted == pc # "invoke" /\ ~(outcome.kind = "raise" /\ outcome.exc = "ValueError")
Rejected == outcome.kind = "raise" /\ outcome.exc = "ValueError"

\* The statement kinds that change data or metadata.
MutatingRoots == {"Drop", "Delete", "Copy"}

ContainsMutating(sql) ==
    \E i \in 1..Len(Statements(sql)) : Statements(sql)[i] \in MutatingRoots

\* Keyword kw occurs in txt as a whole word, in any letter case.
OccursAsWholeWord(kw, txt) ==
    \E p \in 1..(Len(txt) - Len(kw) + 1) :
        /\ LowerSeq(SubSeq(txt, p, p + Len(kw) - 1)) = kw
        /\ p = 1 \/ ~IsWordChar(txt[p - 1])
        /\ p + Len(kw) > Len(txt) \/ ~IsWordChar(txt[p + Len(kw)])

DenyWordOccurs(txt) == \E kw \in DenyList : OccursAsWholeWord(kw, txt)

\* C1: with allow_dml false, a text that contains a mutating statement,
\* alone or among several statements, is rejected and never submitted.
C1_MutatingNeverSubmitted ==
    (Checked /\ ~allow_dml /\ ContainsMutating(s)) =>
        (Rejected /\ NumRequests("submit") = 0)

\* C3: with allow_dml false, a text that parses is accepted if and only if
\* its root statement is a SELECT, WITH or UNION, whatever words it contains.
C3_ParsedAcceptedIffSafeRoot ==
    (Checked /\ ~allow_dml /\ ParseOne(s) # "ParseError") =>
        (Accepted <=> ParseOne(s) \in Safe)

\* C3 witness: a SELECT with a deny-listed word inside a string literal was
\* accepted.
C3_Witness ==
    /\ Accepted /\ ~allow_dml
    /\ ParseOne(s) = "Select"
    /\ DenyWordOccurs(Text(s))

\* C4: with allow_dml false, a text that fails to parse is accepted if and
\* only if no deny-listed word occurs in it as a whole word in any letter case.
C4_UnparsedAcceptedIffNoDenyWord ==
    (Checked /\ ~allow_dml /\ ParseOne(s) = "ParseError") =>
        (Accepted <=> ~DenyWordOccurs(Text(s)))

\* C4 witness: a text that failed to parse and holds a deny-listed word in
\* upper case was rejected.
C4_Witness ==
    /\ Rejected /\ ~allow_dml
    /\ ParseOne(s) = "ParseError"
    /\ OccursAsWholeWord(<<"d","r","o","p">>, Text(s))
    /\ SubSeq(Text(s), 1, 4) = <<"D","R","O","P">>

\* C5: with allow_dml true every text is accepted.
C5_AllowDmlAcceptsAll == (Checked /\ allow_dml) => Accepted

\* C5 witness: a DROP statement was accepted with allow_dml true.
C5_Witness ==
    /\ Accepted /\ allow_dml
    /\ ParseOne(s) = "Drop"
    /\ DenyWordOccurs(Text(s))

\* C2: a rejected invocation makes no request to the remote system: no
\* submission, no status poll, no page fetch, then or later.
C2_RejectedMakesNoRequest == Rejected => (requests = <<>> /\ tasks = <<>>)

\* C2 witness: a text was rejected with allow_dml false.
C2_Witness == Rejected /\ ~allow_dml /\ pc = "raised"

(***************************************************************************)
(* Properties of the paginated result fetch of get_results.                *)
(***************************************************************************)
Ended == pc \in {"returned", "raised"}

RECURSIVE RowsOf(_)
RowsOf(pages) == IF pages = <<>> THEN 0 ELSE Head(pages).row_count + RowsOf(Tail(pages))

\* The pages of a job of rc rows fetched one after another in offset order.
SequentialFetch(rc) == [i \in 1..NumPages(rc) |-> Page(rc, (i - 1) * Limit(rc), Limit(rc))]

PageRequests(off, limit) ==
    {i \in 1..Len(requests) : /\ requests[i].op = "results"
                              /\ requests[i].offset = off
                              /\ requests[i].limit = limit}

\* C8: for a completed job with rows, get_results returns the rows in
\* ascending offset order, as fetching the pages one after another would.
C8_RowsInOffsetOrder ==
    (Ended /\ Succeeded(job) /\ job.row_count > 0) =>
        (outcome.kind = "return" /\ outcome.results = SequentialFetch(job.row_count))

\* C9: for a completed job, the result of get_results has as many rows as
\* the job's row_count, which is the sum of the pages' row counts.
C9_RowCountMatches ==
    (Ended /\ Succeeded(job)) =>
        (outcome.kind = "return" /\ RowsOf(outcome.results) = job.row_count)

\* C10: for a completed job with rows, once get_results and its fetches have
\* ended, exactly one page request was issued per window, at offsets 0,
\* limit, 2*limit, ... with limit = min(500, row_count), and the windows
\* cover [0, row_count) with no overlap and no gap.
C10_OneRequestPerWindow ==
    (Ended /\ Succeeded(job) /\ job.row_count > 0 /\ Waiting = {} /\ Running = {}) =>
        LET rc == job.row_count IN
        /\ \A off \in Offsets(rc) : Cardinality(PageRequests(off, Limit(rc))) = 1
        /\ NumRequests("results") = NumPages(rc)
        /\ \A r \in 0..(rc - 1) :
              Cardinality({off \in Offsets(rc) : off <= r /\ r < off + Limit(rc)}) = 1

(***************************************************************************)
(* Properties of get_results once the job has ended.                       *)
(***************************************************************************)
\* C11: a job observed COMPLETED with row_count = 0 makes get_results return
\* an empty result at once, with no page fetch started and no page request.
C11_EmptyJobReturnsAtOnce ==
    (Succeeded(job) /\ job.row_count = 0) =>
        /\ pc = "returned"
        /\ result = Return(<<>>)
        /\ NumRequests("results") = 0
        /\ tasks = <<>> /\ gathered = NoGather

\* C11 witness: a job completed with no rows after being seen running.
C11_Witness ==
    /\ Succeeded(job) /\ job.row_count = 0
    /\ Len(responses) = 2
    /\ result.kind = "return"

ErrorText(j, emsg) == <<"Job ", JobId, " failed: ", emsg>>

LastAnswer == responses[Len(responses)]
Terminal == {"COMPLETED", "CANCELED", "FAILED"}
Polling == pc \in {"poll", "sleep"}

\* A status poll answered with a job state and a row count.
Observed(a) == a.ok /\ a.body[1].rowCount # <<>>

\* C12: after a status poll observed a job state, get_results goes on to
\* sleep and poll again if and only if the state is none of COMPLETED,
\* CANCELED and FAILED; ENQUEUED and INVALID_STATE are among the states that
\* continue the polling.
C12_PollAgainIffNotTerminal ==
    (responses # <<>> /\ Observed(LastAnswer)) =>
        (Polling <=> LastAnswer.body[1].jobState \notin Terminal)

\* C13: while every status poll observes a job state, get_results has left
\* the polling loop if and only if some poll observed a terminal state; a
\* job that stays in non-terminal states keeps being polled.
C13_LeavesLoopIffTerminal ==
    (responses # <<>> /\ \A k \in 1..Len(responses) : Observed(responses[k])) =>
        (~Polling <=> \E k \in 1..Len(responses) :
                          responses[k].body[1].jobState \in Terminal)

\* C19: no failed request is retried: one submission at most; a call that
\* ended before any status poll was answered issued no status poll; a status
\* poll that failed ends the call with that error and no further status poll
\* is issued.
C19_NoRetry ==
    /\ NumRequests("submit") <= 1
    /\ (Ended /\ responses = <<>>) => NumRequests("status") = 0
    /\ (responses # <<>> /\ ~LastAnswer.ok) =>
          /\ Ended
          /\ result.kind = "raise" /\ result.exc = "ClientResponseError"
          /\ outcome = result
          /\ NumRequests("status") = Len(responses)

\* C19 witness: the second status poll failed and the call ended with two
\* status polls issued in all.
C19_Witness ==
    /\ Ended
    /\ Len(responses) = 2 /\ ~LastAnswer.ok
    /\ NumRequests("status") = 2 /\ NumRequests("submit") = 1

\* C14: a job that ends FAILED makes get_results raise an error with the
\* job's error message, or "Unknown error" when it has none, and no result.
C14_FailedRaisesWithMessage ==
    job.job_state = "FAILED" =>
        /\ result.kind = "raise" /\ result.exc = "RuntimeError"
        /\ result.results = <<>>
        /\ result.error = ErrorText(job, IF job.error_message \in {None, ""}
                                         THEN "Unknown error"
                                         ELSE job.error_message)

\* C14 witness: a FAILED job without error message but with a cancellation
\* reason raised "Unknown error".
C14_Witness ==
    /\ job.job_state = "FAILED"
    /\ job.error_message = None /\ job.cancellation_reason = "user"
    /\ result.kind = "raise" /\ result.error[4] = "Unknown error"

\* C15: a job that ends CANCELED without error message makes get_results
\* raise an error with the job's cancellation reason.
C15_CanceledWithoutMessage ==
    (job.job_state = "CANCELED" /\ job.error_message \in {None, ""}) =>
        /\ result.kind = "raise" /\ result.exc = "RuntimeError"
        /\ result.error = ErrorText(job, job.cancellation_reason)

\* C15 witness: a CANCELED job with a reason and no message raised.
C15_Witness ==
    /\ job.job_state = "CANCELED"
    /\ job.error_message = None /\ job.cancellation_reason = "user"
    /\ result.kind = "raise" /\ result.error[4] = "user"

\* C16: a job that ends CANCELED makes get_results raise an error with the
\* cancellation reason whenever there is one, and with the error message
\* only when there is no cancellation reason.
C16_CanceledReasonFirst ==
    job.job_state = "CANCELED" =>
        /\ result.kind = "raise"
        /\ Truthy(job.cancellation_reason) =>
               result.error = ErrorText(job, job.cancellation_reason)
        /\ (Truthy(job.error_message) /\ result.error = ErrorText(job, job.error_message)) =>
               ~Truthy(job.cancellation_reason)

\* C17: when a page fetch has failed, get_results returns no result, not
\* even the pages that were fetched, and the error of the fetch that failed
\* first is raised to the caller.
C17_FetchFailureNoResult ==
    (\E i \in 1..Len(tasks) : tasks[i].st = "failed") =>
        /\ result.kind \in {"pending", "raise"}
        /\ result.results = <<>>
        /\ Ended => /\ result.kind = "raise"
                    /\ result.exc = tasks[finished[1]].exc
                    /\ outcome = result

\* C17 witness: the call ended after the fetch of a page failed.
C17_Witness ==
    /\ Ended /\ pc = "raised"
    /\ Len(tasks) >= 2
    /\ tasks[1].st = "failed"

(***************************************************************************)
(* run_in_parallel called by a generic caller with operations that are     *)
(* suspended on I/O once started.                                          *)
(***************************************************************************)
Values == {"a", "b"}

InitPar ==
    /\ allow_dml = FALSE
    /\ s = <<>>
    /\ pc = "gather"
    /\ outcome = Pending
    /\ result = Pending
    /\ requests = <<>>
    /\ job = NoJob
    /\ responses = <<>>
    /\ \E n \in 0..MaxOps : \E vals \in [1..n -> Values] :
          /\ coroutines = [i \in 1..n |-> OpCoroutine(vals[i])]
          /\ tasks = [i \in 1..n |-> WaitingTask]
          /\ gathered = StartGather(vals)
    /\ max_concurrent_tasks \in 0..MaxConcurrent
    /\ semaphore = max_concurrent_tasks
    /\ finished = <<>>
    /\ dremio = DremioSettings("proj", FALSE)
    /\ call = NoCall
    /\ mcp = NoServer

\* The caller resumes from `await run_in_parallel(...)`.
ParDone ==
    /\ pc = "gather"
    /\ gathered.st \in {"results", "exception"}
    /\ IF gathered.st = "exception"
       THEN pc' = "raised" /\ outcome' = Raise(gathered.exc, <<gathered.exc>>)
       ELSE pc' = "returned" /\ outcome' = Return(GatherResults)
    /\ UNCHANGED <<invokeVars, result, remoteVars, parVars>>

NextPar ==
    /\ \/ \E i \in 1..Len(tasks) : TaskStart(i)
       \/ \E i \in 1..Len(tasks) : TaskFinish(i)
       \/ \E i \in 1..Len(tasks) : TaskFail(i)
       \/ ParDone
    /\ UNCHANGED toolVars

SpecPar == InitPar /\ [][NextPar]_vars

(***************************************************************************)
(* Properties of run_in_parallel.                                          *)
(***************************************************************************)
\* C6: never more than max_concurrent_tasks operations are running.
C6_AtMostNRunning == Cardinality(Running) <= max_concurrent_tasks

\* C6 witness: the limit is reached while another operation waits.
C6_Witness ==
    /\ max_concurrent_tasks >= 2
    /\ Cardinality(Running) = max_concurrent_tasks
    /\ Waiting # {}

AllDone == \A i \in 1..Len(tasks) : tasks[i].st = "done"

Failed == {i \in 1..Len(tasks) : tasks[i].st = "failed"}

\* The operation that raised first.
FirstFailed ==
    finished[CHOOSE k \in 1..Len(finished) :
                /\ finished[k] \in Failed
                /\ \A m \in 1..(k - 1) : finished[m] \notin Failed]

\* C18: once an operation has raised, run_in_parallel fails with the error
\* raised first and returns no result list; an operation that has completed
\* stays completed with its result.
C18_FailureFailsBatch ==
    /\ [](Failed # {} =>
            /\ gathered.st = "exception"
            /\ gathered.exc = tasks[FirstFailed].exc
            /\ outcome.results = <<>>
            /\ pc # "gather" => /\ pc = "raised"
                                /\ outcome.kind = "raise"
                                /\ outcome.exc = tasks[FirstFailed].exc)
    /\ [][\A i \in 1..Len(tasks) : tasks[i].st = "done" => tasks'[i] = tasks[i]]_vars

\* C18 witness: the call failed with the error of the second operation after
\* the first operation had completed, and a later operation raised another
\* error.
C18_Witness ==
    /\ pc = "raised"
    /\ Len(tasks) >= 3
    /\ tasks[1].st = "done" /\ finished[1] = 1
    /\ tasks[2].st = "failed" /\ tasks[3].st = "failed"
    /\ finished[2] = 2
    /\ tasks[2].exc # tasks[3].exc
    /\ outcome.exc = tasks[2].exc

\* C7: when every operation completes, the call returns one result per
\* operation, the i-th being the result of the i-th operation.
C7_ResultsInInputOrder ==
    /\ AllDone => gathered.st = "results"
    /\ pc = "returned" =>
          /\ AllDone
          /\ outcome.kind = "return"
          /\ outcome.results = [i \in 1..Len(coroutines) |-> coroutines[i].val]

\* C7 witness: the call returned after the second operation completed
\* before the first, their results being different.
C7_Witness ==
    /\ pc = "returned"
    /\ Len(coroutines) >= 2
    /\ coroutines[1].val # coroutines[2].val
    /\ finished[1] = 2

(***************************************************************************)
(* Properties of a whole run_query call.                                   *)
(***************************************************************************)
\* The status polls were answered STARTING, RUNNING and COMPLETED with a row
\* count of 1200.
StartingRunningCompleted1200 ==
    /\ Len(responses) = 3
    /\ \A k \in 1..3 : Observed(responses[k])
    /\ [k \in 1..3 |-> responses[k].body[1].jobState] = <<"STARTING", "RUNNING", "COMPLETED">>
    /\ job.row_count = 1200

\* C25: for a job seen STARTING, RUNNING and then COMPLETED with row_count
\* 1200, once the call and its fetches have ended exactly three page
\* requests were issued, at offsets 0, 500 and 1000, and the result is the
\* pages of 500, 500 and 200 rows in offset order, 1200 rows in all.
C25_ThreePagesOf1200 ==
    (StartingRunningCompleted1200 /\ Ended /\ Waiting = {} /\ Running = {}) =>
        /\ NumRequests("results") = 3
        /\ \A off \in {0, 500, 1000} : Cardinality(PageRequests(off, 500)) = 1
        /\ outcome.kind = "return"
        /\ outcome.results = SequentialFetch(1200)
        /\ [i \in 1..Len(outcome.results) |-> outcome.results[i].row_count] = <<500, 500, 200>>
        /\ RowsOf(outcome.results) = 1200

\* C26: a status response with a job state and no row count is accepted as
\* a Job: the poll does not fail on it, and for a non-terminal state the
\* polling goes on.
C26_StatusWithoutRowCountAccepted ==
    (/\ responses # <<>>
     /\ LastAnswer.ok
     /\ LastAnswer.body[1].jobState \in JobState \ Terminal
     /\ LastAnswer.body[1].rowCount = <<>>) =>
        (result = Pending /\ Polling)

\* C27: when run_query fails with a RuntimeError, invoke does not raise: it
\* returns a record whose error field is the failure text and whose message
\* field is the fixed failure message.
C27_RuntimeErrorBecomesRecord ==
    (result.kind = "raise" /\ result.exc = "RuntimeError") =>
        /\ pc = "returned"
        /\ outcome.kind = "return"
        /\ outcome.error = result.error
        /\ outcome.message = "The query failed. Please check the syntax and try again"

\* C27 witness: a job ended FAILED or CANCELED and invoke returned the
\* error record with the job's failure text.
C27_Witness ==
    /\ responses # <<>> /\ Observed(LastAnswer)
    /\ job.job_state \in {"FAILED", "CANCELED"}
    /\ outcome.kind = "return"
    /\ outcome.error = ErrorText(job, Emsg(job))
    /\ outcome.message = FailedMessage

Ops(op) == {i \in 1..Len(requests) : requests[i].op = op}

\* A page fetch has started: its task exists or its request was issued.
FetchStarted == tasks # <<>> \/ Ops("results") # {}

\* C28: the requests of one run_query call are one submission, first, then
\* the status polls, then the page fetches; there is no status poll while
\* the submission is unanswered and at least one once it is answered, no
\* page fetch starts before a poll was answered COMPLETED, and none for a
\* job that ended FAILED or CANCELED.
C28_RequestOrder ==
    /\ Cardinality(Ops("submit")) <= 1
    /\ requests # <<>> => requests[1].op = "submit"
    /\ \A i \in Ops("status"), k \in Ops("results") : i < k
    /\ pc \in {"invoke", "submit"} => Ops("status") = {}
    /\ pc \in {"poll", "sleep", "fetch"} => Ops("status") # {}
    /\ responses # <<>> => Ops("status") # {}
    /\ FetchStarted =>
          \E k \in 1..Len(responses) :
              responses[k].ok /\ responses[k].body[1].jobState = "COMPLETED"
    /\ job.job_state \in {"FAILED", "CANCELED"} => ~FetchStarted

\* C28 witness: the page fetches of a job with rows were set off after a
\* submission and two status polls, the second answered COMPLETED.
C28_Witness ==
    /\ Len(requests) >= 3
    /\ [i \in 1..3 |-> requests[i].op] = <<"submit", "status", "status">>
    /\ Len(responses) = 2 /\ LastAnswer.ok /\ LastAnswer.body[1].jobState = "COMPLETED"
    /\ job.row_count > 0
    /\ tasks # <<>> /\ Len(tasks) = NumPages(job.row_count)

(***************************************************************************)
(* Operations that outlive a failed run_in_parallel call.                  *)
(***************************************************************************)
\* After an operation has raised, the others go on: one that is running can
\* still return, one that waits is still started when a permit is free,
\* whether or not the caller has already received the error.
OthersNotCancelled ==
    Failed # {} =>
        /\ \A i \in Running : ENABLED TaskFinish(i)
        /\ \A i \in Waiting : CanAcquire(i) => ENABLED TaskStart(i)

\* The caller has the error while one operation runs and another waits.
OthersOutliveCall ==
    /\ pc = "raised"
    /\ Running # {}
    /\ \E i \in Waiting : CanAcquire(i)

\* C29: when an operation of run_in_parallel has raised, the others are not
\* cancelled, and in get_results a page fetch that is started after another
\* one has raised still issues its page request.
C29_FetchesIssuedAfterFailure ==
    /\ [][\A i \in 1..Len(tasks) :
            (/\ Failed # {}
             /\ coroutines[i].kind = "fetch"
             /\ tasks[i].st = "waiting"
             /\ tasks'[i].st # "waiting") =>
                /\ Len(requests') = Len(requests) + 1
                /\ requests'[Len(requests')] =
                       Request("results", <<>>, coroutines[i].off, coroutines[i].limit)]_vars
    /\ []OthersNotCancelled

(***************************************************************************)
(* The tool registry on its own: is_tool_for, get_tools and get_resources  *)
(* called under every configuration, the server built by init and the      *)
(* tools invoked by name.                                                  *)
(***************************************************************************)
DremioConfigs == {NoDremio} \cup {DremioSettings(p, e) : p \in {None, "proj"}, e \in BOOLEAN}

ForArgs == {<<>>} \cup {<<mode>> : mode \in Modes}

InitTools ==
    /\ allow_dml \in BOOLEAN
    /\ s = DropStmt
    /\ pc = "registry"
    /\ outcome = Pending
    /\ result = Pending
    /\ requests = <<>>
    /\ job = NoJob
    /\ responses = <<>>
    /\ coroutines = <<>>
    /\ max_concurrent_tasks = DefaultMaxConcurrentTasks
    /\ semaphore = DefaultMaxConcurrentTasks
    /\ tasks = <<>>
    /\ gathered = NoGather
    /\ finished = <<>>
    /\ dremio \in DremioConfigs
    /\ call = NoCall
    /\ mcp = NoServer

\* A mutant of IsToolForCall: the settings found missing are replaced by
\* default ones.
IsToolForCallStoresDefault ==
    /\ pc = "registry"
    /\ \E tc \in ToolClasses, mode \in Modes :
          call' = Call("is_tool_for", tc.name, <<mode>>, dremio,
                       IsToolFor(tc, mode, dremio), {})
    /\ dremio' = IF dremio.configured THEN dremio ELSE DremioSettings(None, FALSE)
    /\ UNCHANGED <<invokeVars, callVars, remoteVars, parVars, mcp>>

\* is_tool_for(tool, tool_type) is called.
IsToolForCall ==
    /\ pc = "registry"
    /\ \E tc \in ToolClasses, mode \in Modes :
          call' = Call("is_tool_for", tc.name, <<mode>>, dremio,
                       IsToolFor(tc, mode, dremio), {})
    /\ UNCHANGED <<invokeVars, callVars, remoteVars, parVars, dremio, mcp>>

\* get_tools(For) is called.
GetToolsCall ==
    /\ pc = "registry"
    /\ \E For \in ForArgs :
          call' = Call("get_tools", "none", For, dremio,
                       GetTools(For, dremio).value, GetTools(For, dremio).listed)
    /\ UNCHANGED <<invokeVars, callVars, remoteVars, parVars, dremio, mcp>>

\* get_resources(For) is called.
GetResourcesCall ==
    /\ pc = "registry"
    /\ \E For \in ForArgs :
          call' = Call("get_resources", "none", For, dremio,
                       GetResources(For, dremio).value, GetResources(For, dremio).listed)
    /\ UNCHANGED <<invokeVars, callVars, remoteVars, parVars, dremio, mcp>>

\* ensure_query_allowed(s) is called.
EnsureQueryAllowedCall ==
    /\ pc = "registry"
    /\ call' = Call("ensure_query_allowed", "none", <<>>, dremio,
                    EnsureQueryAllowed(allow_dml, s), {})
    /\ UNCHANGED <<invokeVars, callVars, remoteVars, parVars, dremio, mcp>>

\* init(mode=For): every class of get_tools(For) is added as a tool and every
\* class of get_resources(For) as a resource; an exception of either leaves
\* no server.
ServerInit ==
    /\ pc = "registry"
    /\ mcp.st = "none"
    /\ \E For \in ForArgs :
          LET tl == GetTools(For, dremio)
              rs == GetResources(For, dremio)
          IN  IF tl.value = "list" /\ rs.value = "list"
              THEN /\ mcp' = Server("up", tl.listed, rs.listed, dremio)
                   /\ call' = Call("init", "none", For, dremio, "FastMCP", tl.listed)
              ELSE /\ mcp' = Server("failed", {}, {}, NoDremio)
                   /\ call' = Call("init", "none", For, dremio, "AttributeError", {})
    /\ UNCHANGED <<invokeVars, callVars, remoteVars, parVars, dremio>>

\* A client of the server calls a tool by name: the server looks the name
\* up among the tools init added and invokes it.
CallTool ==
    /\ pc = "registry"
    /\ mcp.st = "up"
    /\ \E tc \in ToolClasses :
          call' = Call("call_tool", tc.name, <<>>, dremio,
                       IF tc.name \in mcp.tools THEN "invoked" ELSE "not found", {})
    /\ UNCHANGED <<invokeVars, callVars, remoteVars, parVars, dremio, mcp>>

\* tools_exec(tool): the command line looks the name up in
\* get_tools(for_all), for_all being every ToolType member, and invokes it.
ToolsExec ==
    /\ pc = "registry"
    /\ \E tc \in ToolClasses :
          LET all_tools == GetTools(<<ToolType>>, dremio)
          IN  call' = Call("tools_exec", tc.name, <<ToolType>>, dremio,
                           IF all_tools.value # "list" THEN all_tools.value
                           ELSE IF tc.name \in all_tools.listed THEN "invoked"
                           ELSE "BadParameter", {})
    /\ UNCHANGED <<invokeVars, callVars, remoteVars, parVars, dremio, mcp>>

\* The settings are changed: with_overrides or an assignment to a field.
ConfigChange ==
    /\ pc = "registry"
    /\ dremio' \in DremioConfigs \ {dremio}
    /\ UNCHANGED <<invokeVars, callVars, remoteVars, parVars, call, mcp>>

NextTools ==
    \/ IsToolForCall
    \/ GetToolsCall
    \/ GetResourcesCall
    \/ EnsureQueryAllowedCall
    \/ ServerInit
    \/ CallTool
    \/ ToolsExec
    \/ ConfigChange

SpecTools == InitTools /\ [][NextTools]_vars

(***************************************************************************)
(* Properties of the tool registry.                                        *)
(***************************************************************************)
ClassOf(name) == CHOOSE tc \in ToolClasses : tc.name = name

\* The exposure rule: the mask shares a flag with the mode, the tool is not
\* experimental or experimental tools are enabled, and the tool needs no
\* project id or one is configured.
Exposed(tc, mode, d) ==
    /\ tc.For # <<>> /\ tc.For[1] \cap mode # {}
    /\ "EXPERIMENTAL" \notin tc.For[1] \/ (d.configured /\ d.enable_experimental)
    /\ ~tc.project_id_required \/ (d.configured /\ d.project_id # None)

\* C20: is_tool_for answers true for a tool, and get_tools(M) lists it, if
\* and only if the exposure rule holds of the tool, the mode and the
\* configuration.
C20_ListedIffExposed ==
    /\ call.op = "is_tool_for" =>
          (call.value = "True" <=> Exposed(ClassOf(call.tool), call.For[1], call.d))
    /\ (call.op = "get_tools" /\ call.For # <<>>) =>
          /\ call.value = "list"
          /\ call.listed = {tc.name : tc \in {c \in ToolCandidates :
                                                   Exposed(c, call.For[1], call.d)}}

Experimental(name) ==
    ClassOf(name).For # <<>> /\ "EXPERIMENTAL" \in ClassOf(name).For[1]

C22_NoProjectIdNotListed ==
    (/\ call.op = "is_tool_for"
     /\ ClassOf(call.tool).project_id_required
     /\ ~(call.d.configured /\ call.d.project_id # None)) =>
        call.value = "False"

\* The part of the exposure rule that depends on the configuration.
Available(tc, d) ==
    /\ "EXPERIMENTAL" \notin tc.For[1] \/ (d.configured /\ d.enable_experimental)
    /\ ~tc.project_id_required \/ (d.configured /\ d.project_id # None)

\* C23: a tool that the server listed when the exposure rule held of it is
\* not invoked by name once a configuration change has made the rule fail:
\* the lookup rejects it.
C23_LookupRevalidates ==
    (/\ call.op = "call_tool"
     /\ call.tool \in mcp.tools
     /\ Available(ClassOf(call.tool), mcp.d)
     /\ ~Available(ClassOf(call.tool), call.d)) =>
        call.value # "invoked"

ExposureOps == {"is_tool_for", "get_tools", "get_resources", "ensure_query_allowed"}

C30_NoModeListsAll ==
    /\ (call.op = "get_tools" /\ call.For = <<>>) =>
          (call.value = "list" /\ call.listed = {tc.name : tc \in ToolCandidates})
    /\ (call.op = "get_resources" /\ call.For = <<>>) =>
          (call.value = "list" /\ call.listed = {tc.name : tc \in ResourceCandidates})
    /\ (call.op = "init" /\ call.For = <<>>) =>
          /\ mcp.st = "up"
          /\ mcp.tools = {tc.name : tc \in ToolCandidates}
          /\ mcp.resources = {tc.name : tc \in ResourceCandidates}

\* C30 witness: a server built with no mode, experimental tools being off
\* and no project id configured, has the experimental SemanticSearch and the
\* project-id tool BuildUsageReport registered.
C30_Witness ==
    /\ call.op = "init" /\ call.For = <<>>
    /\ call.d.configured /\ ~call.d.enable_experimental /\ call.d.project_id = None
    /\ mcp.st = "up"
    /\ {"SemanticSearch", "BuildUsageReport"} \subseteq mcp.tools

====
